---------------------------- MODULE Spec2Model ----------------------------
(***************************************************************************)
(* Model of the scoring/exclusion engine of streamlit_app.py: the catalog  *)
(* DMT_CLASSES, the four rule passes, the ranking of                       *)
(* compute_rrms_initial_recommendations and the result branch of           *)
(* page_initial_rrms.                                                      *)
(*                                                                         *)
(* Scores are Python floats that are always multiples of 0.5; they are     *)
(* kept here as integers scaled by 2 (3.0 is 6, 1.5 is 3, -2.0 is -4).     *)
(***************************************************************************)
EXTENDS Integers, Sequences, FiniteSets, TLC

VARIABLES pc, profile, scores, notes, excluded,
          strongly_recommended, reasonable_alternatives, details, outcome, ui,
          history

vars == <<pc, profile, scores, notes, excluded,
          strongly_recommended, reasonable_alternatives, details, outcome, ui,
          history>>

(***************************************************************************)
(* Bound of the model: how many options may be selected at once over the   *)
(* two multiselect inputs (comorbidities and logistic limits).             *)
(***************************************************************************)
MaxSelected == 2

(***************************************************************************)
(* The catalog.                                                            *)
(***************************************************************************)
ClassOrder ==
  << "anti_cd20", "natalizumab", "alemtuzumab", "cladribine",
     "s1p_modulators", "fumarates", "teriflunomide", "platform_injectables" >>

ClassIds == { ClassOrder[i] : i \in 1..Len(ClassOrder) }

DMT_CLASSES ==
  [ anti_cd20 |->
      [ efficacy_tier |-> "high",
        tags |-> {"high_efficacy", "infusion", "sc", "long_interval", "blunts_vaccines"},
        pregnancy_strategy |-> "short_course_before_preg" ],
    natalizumab |->
      [ efficacy_tier |-> "high",
        tags |-> {"high_efficacy", "infusion", "rebound_risk", "vaccine_friendly"},
        pregnancy_strategy |-> "short_course_before_preg" ],
    alemtuzumab |->
      [ efficacy_tier |-> "high",
        tags |-> {"high_efficacy", "infusion", "immune_reconstitution", "intense_monitoring"},
        pregnancy_strategy |-> "needs_long_washout" ],
    cladribine |->
      [ efficacy_tier |-> "high",
        tags |-> {"high_efficacy", "oral", "immune_reconstitution", "long_interval", "vaccine_friendly"},
        pregnancy_strategy |-> "short_course_before_preg" ],
    s1p_modulators |->
      [ efficacy_tier |-> "moderate_high",
        tags |-> {"oral", "high_efficacy", "high_freq", "rebound_risk", "blunts_vaccines"},
        pregnancy_strategy |-> "needs_long_washout" ],
    fumarates |->
      [ efficacy_tier |-> "moderate",
        tags |-> {"oral", "moderate_efficacy", "high_freq", "vaccine_friendly"},
        pregnancy_strategy |-> "caution" ],
    teriflunomide |->
      [ efficacy_tier |-> "moderate",
        tags |-> {"oral", "moderate_efficacy", "high_freq"},
        pregnancy_strategy |-> "avoid" ],
    platform_injectables |->
      [ efficacy_tier |-> "platform",
        tags |-> {"injectable", "platform", "high_freq", "vaccine_friendly"},
        pregnancy_strategy |-> "compatible" ] ]

(***************************************************************************)
(* The input vocabularies (the options the form offers).                   *)
(***************************************************************************)
RiskLevels == {"high", "low_mod"}
EfficacyPreferences == {"max", "balanced", "safety"}
PregnancyHorizons == {"within_6_months", "six_to_24_months", "none"}
ComorbidityCodes ==
  {"cardiac", "hepatic", "renal", "autoimmune", "malignancy",
   "infection_risk", "psychiatric", "gi_dominant"}
RoutePreferences == {"no_strong_pref", "oral_only", "no_infusion", "prefer_infrequent"}
LogisticCodes == {"limited_infusion_access", "time_off_work", "unstable_insurance"}

\* The selections of the two multiselect inputs, within the bound.
Selections(ccodes, lcodes) ==
  { sel \in (SUBSET ccodes) \X (SUBSET lcodes) :
      Cardinality(sel[1]) + Cardinality(sel[2]) <= MaxSelected }

\* The widget defaults of the form.
DefaultProfile ==
  [ risk_level |-> "high", efficacy_preference |-> "balanced",
    of_childbearing_potential |-> TRUE, pregnancy_horizon |-> "none",
    comorbidities |-> {}, adherence_risk |-> FALSE,
    route_preference |-> "no_strong_pref", logistic_limits |-> {},
    vaccine_priority |-> FALSE, forced_stop_risk |-> FALSE ]

(***************************************************************************)
(* The accumulators of one evaluation: st = [scores, notes, excluded].     *)
(* excluded is a Python dict: a function whose domain is its key set.      *)
(***************************************************************************)
AddScore(st, key, delta, note) ==
  [ st EXCEPT !.scores[key] = @ + delta, !.notes[key] = Append(@, note) ]

\* Mutant: a reason that is already recorded for the class is kept.
SetExcluded_first(st, key, reason) ==
  [ st EXCEPT !.excluded =
      [ k \in (DOMAIN st.excluded) \cup {key} |->
          IF k \in DOMAIN st.excluded THEN st.excluded[k] ELSE reason ] ]

SetExcluded(st, key, reason) ==
  [ st EXCEPT !.excluded =
      [ k \in (DOMAIN st.excluded) \cup {key} |->
          IF k = key THEN reason ELSE st.excluded[k] ] ]

HighTiers == {"high", "moderate_high"}

(***************************************************************************)
(* Pass 1: score_activity_and_efficacy.  The body of the loop for one      *)
(* class, then the loop over DMT_CLASSES.items() in declaration order.     *)
(***************************************************************************)
\* Mutant: the high-risk caveat delta is the 1.5 of the max-preference branch.
score_activity_and_efficacy_body_caveat(risk_level, efficacy_preference, st, key) ==
  LET tier == DMT_CLASSES[key].efficacy_tier IN
  IF risk_level = "high" THEN
    IF tier \in HighTiers
      THEN AddScore(st, key, 6, "high_risk_high_efficacy_preferred")
      ELSE AddScore(st, key, 3, "high_risk_platform_likely_insufficient")
  ELSE IF efficacy_preference = "max" THEN
    IF tier \in HighTiers
      THEN AddScore(st, key, 6, "max_pref_fits")
      ELSE AddScore(st, key, 3, "max_pref_moderate_platform")
  ELSE IF efficacy_preference = "balanced" THEN
    IF tier \in HighTiers
      THEN AddScore(st, key, 5, "balanced_high_acceptable")
      ELSE AddScore(st, key, 4, "balanced_moderate_acceptable")
  ELSE
    IF tier \in HighTiers
      THEN AddScore(st, key, 2, "safety_high_only_if_favoured")
      ELSE AddScore(st, key, 6, "safety_platform_aligns")

\* Mutant: the safety-first stance is consulted before the risk level.
score_activity_and_efficacy_body_stance(risk_level, efficacy_preference, st, key) ==
  LET tier == DMT_CLASSES[key].efficacy_tier IN
  IF efficacy_preference = "safety" THEN
    IF tier \in HighTiers
      THEN AddScore(st, key, 2, "safety_high_only_if_favoured")
      ELSE AddScore(st, key, 6, "safety_platform_aligns")
  ELSE IF risk_level = "high" THEN
    IF tier \in HighTiers
      THEN AddScore(st, key, 6, "high_risk_high_efficacy_preferred")
      ELSE AddScore(st, key, 2, "high_risk_platform_likely_insufficient")
  ELSE IF efficacy_preference = "max" THEN
    IF tier \in HighTiers
      THEN AddScore(st, key, 6, "max_pref_fits")
      ELSE AddScore(st, key, 3, "max_pref_moderate_platform")
  ELSE
    IF tier \in HighTiers
      THEN AddScore(st, key, 5, "balanced_high_acceptable")
      ELSE AddScore(st, key, 4, "balanced_moderate_acceptable")

score_activity_and_efficacy_body(risk_level, efficacy_preference, st, key) ==
  LET tier == DMT_CLASSES[key].efficacy_tier IN
  IF risk_level = "high" THEN
    IF tier \in HighTiers
      THEN AddScore(st, key, 6, "high_risk_high_efficacy_preferred")
      ELSE AddScore(st, key, 2, "high_risk_platform_likely_insufficient")
  ELSE IF efficacy_preference = "max" THEN
    IF tier \in HighTiers
      THEN AddScore(st, key, 6, "max_pref_fits")
      ELSE AddScore(st, key, 3, "max_pref_moderate_platform")
  ELSE IF efficacy_preference = "balanced" THEN
    IF tier \in HighTiers
      THEN AddScore(st, key, 5, "balanced_high_acceptable")
      ELSE AddScore(st, key, 4, "balanced_moderate_acceptable")
  ELSE \* safety-first
    IF tier \in HighTiers
      THEN AddScore(st, key, 2, "safety_high_only_if_favoured")
      ELSE AddScore(st, key, 6, "safety_platform_aligns")

RECURSIVE score_activity_and_efficacy_loop(_, _, _, _)
score_activity_and_efficacy_loop(risk_level, efficacy_preference, st, i) ==
  IF i > Len(ClassOrder) THEN st
  ELSE score_activity_and_efficacy_loop(risk_level, efficacy_preference,
         score_activity_and_efficacy_body(risk_level, efficacy_preference, st, ClassOrder[i]),
         i + 1)

score_activity_and_efficacy(risk_level, efficacy_preference, st) ==
  score_activity_and_efficacy_loop(risk_level, efficacy_preference, st, 1)

(***************************************************************************)
(* Pass 2: score_pregnancy.                                                *)
(***************************************************************************)
\* Mutant: within 6 months only the avoid and long-washout strategies are
\* excluded.
score_pregnancy_body_lenient(pregnancy_horizon, st, key) ==
  LET strategy == DMT_CLASSES[key].pregnancy_strategy IN
  IF pregnancy_horizon = "within_6_months" THEN
    IF strategy = "compatible"
      THEN AddScore(st, key, 8, "preg_6m_compatible")
    ELSE IF strategy \in {"avoid", "needs_long_washout"}
      THEN SetExcluded(st, key, "pregnancy_within_6_months")
    ELSE st
  ELSE IF pregnancy_horizon = "six_to_24_months" THEN
    IF strategy = "compatible"
      THEN AddScore(st, key, 6, "preg_24m_compatible")
    ELSE IF strategy = "short_course_before_preg"
      THEN AddScore(st, key, 4, "preg_24m_short_course")
    ELSE IF strategy = "caution"
      THEN AddScore(st, key, 2, "preg_24m_caution")
    ELSE
      AddScore(st, key, -6, "preg_24m_long_washout")
  ELSE st

score_pregnancy_body(pregnancy_horizon, st, key) ==
  LET strategy == DMT_CLASSES[key].pregnancy_strategy IN
  IF pregnancy_horizon = "within_6_months" THEN
    IF strategy = "compatible"
      THEN AddScore(st, key, 8, "preg_6m_compatible")
      ELSE SetExcluded(st, key, "pregnancy_within_6_months")
  ELSE IF pregnancy_horizon = "six_to_24_months" THEN
    IF strategy = "compatible"
      THEN AddScore(st, key, 6, "preg_24m_compatible")
    ELSE IF strategy = "short_course_before_preg"
      THEN AddScore(st, key, 4, "preg_24m_short_course")
    ELSE IF strategy = "caution"
      THEN AddScore(st, key, 2, "preg_24m_caution")
    ELSE \* needs_long_washout or avoid
      AddScore(st, key, -6, "preg_24m_long_washout")
  ELSE st

RECURSIVE score_pregnancy_loop(_, _, _)
score_pregnancy_loop(pregnancy_horizon, st, i) ==
  IF i > Len(ClassOrder) THEN st
  ELSE score_pregnancy_loop(pregnancy_horizon,
         score_pregnancy_body(pregnancy_horizon, st, ClassOrder[i]), i + 1)

score_pregnancy(pregnancy_horizon, of_childbearing_potential, st) ==
  IF ~of_childbearing_potential \/ pregnancy_horizon = "none"
    THEN st   \* early return
    ELSE score_pregnancy_loop(pregnancy_horizon, st, 1)

(***************************************************************************)
(* Pass 3: score_comorbidities.  The cardiac and hepatic rules end the     *)
(* iteration for their class (continue); the autoimmune rule does not.     *)
(***************************************************************************)
\* Mutant: the autoimmune rule penalises alemtuzumab instead of excluding it.
score_comorbidities_body_penalty(comorbidities, st, key) ==
  IF "cardiac" \in comorbidities /\ key = "s1p_modulators" THEN
    SetExcluded(st, key, "cardiac")
  ELSE IF "hepatic" \in comorbidities /\ key = "teriflunomide" THEN
    SetExcluded(st, key, "hepatic")
  ELSE
    LET s1 == IF "renal" \in comorbidities /\ key = "fumarates"
                THEN AddScore(st, key, -4, "renal_fumarates") ELSE st
        s2 == IF "autoimmune" \in comorbidities /\ key = "alemtuzumab"
                THEN AddScore(s1, key, -4, "autoimmune") ELSE s1
        s3 == IF "malignancy" \in comorbidities
                 /\ key \in {"anti_cd20", "alemtuzumab", "cladribine", "teriflunomide"}
                THEN AddScore(s2, key, -4, "malignancy") ELSE s2
        s4 == IF "infection_risk" \in comorbidities
                 /\ key \in {"anti_cd20", "alemtuzumab", "cladribine", "s1p_modulators"}
                THEN AddScore(s3, key, -6, "infection_risk") ELSE s3
        s5 == IF "gi_dominant" \in comorbidities /\ key \in {"fumarates", "teriflunomide"}
                THEN AddScore(s4, key, -6, "gi_dominant") ELSE s4
        s6 == IF "psychiatric" \in comorbidities /\ key = "platform_injectables"
                THEN AddScore(s5, key, -4, "psychiatric") ELSE s5
    IN s6

score_comorbidities_body(comorbidities, st, key) ==
  IF "cardiac" \in comorbidities /\ key = "s1p_modulators" THEN
    SetExcluded(st, key, "cardiac")            \* continue
  ELSE IF "hepatic" \in comorbidities /\ key = "teriflunomide" THEN
    SetExcluded(st, key, "hepatic")            \* continue
  ELSE
    LET s1 == IF "renal" \in comorbidities /\ key = "fumarates"
                THEN AddScore(st, key, -4, "renal_fumarates") ELSE st
        s2 == IF "autoimmune" \in comorbidities /\ key = "alemtuzumab"
                THEN SetExcluded(s1, key, "autoimmune") ELSE s1
        s3 == IF "malignancy" \in comorbidities
                 /\ key \in {"anti_cd20", "alemtuzumab", "cladribine", "teriflunomide"}
                THEN AddScore(s2, key, -4, "malignancy") ELSE s2
        s4 == IF "infection_risk" \in comorbidities
                 /\ key \in {"anti_cd20", "alemtuzumab", "cladribine", "s1p_modulators"}
                THEN AddScore(s3, key, -6, "infection_risk") ELSE s3
        s5 == IF "gi_dominant" \in comorbidities /\ key \in {"fumarates", "teriflunomide"}
                THEN AddScore(s4, key, -6, "gi_dominant") ELSE s4
        s6 == IF "psychiatric" \in comorbidities /\ key = "platform_injectables"
                THEN AddScore(s5, key, -4, "psychiatric") ELSE s5
    IN s6

\* Mutant: the pass skips the classes that are keys of excluded already.
RECURSIVE score_comorbidities_loop_skipping(_, _, _)
score_comorbidities_loop_skipping(comorbidities, st, i) ==
  IF i > Len(ClassOrder) THEN st
  ELSE score_comorbidities_loop_skipping(comorbidities,
         IF ClassOrder[i] \in DOMAIN st.excluded
           THEN st
           ELSE score_comorbidities_body(comorbidities, st, ClassOrder[i]),
         i + 1)

RECURSIVE score_comorbidities_loop(_, _, _)
score_comorbidities_loop(comorbidities, st, i) ==
  IF i > Len(ClassOrder) THEN st
  ELSE score_comorbidities_loop(comorbidities,
         score_comorbidities_body(comorbidities, st, ClassOrder[i]), i + 1)

score_comorbidities(comorbidities, st) ==
  score_comorbidities_loop(comorbidities, st, 1)

(***************************************************************************)
(* Pass 4: score_modifiers.  Under oral_only a class that is not oral is   *)
(* excluded and the iteration for it ends (continue), after the adherence  *)
(* rule has already been applied.                                          *)
(***************************************************************************)
LongActing(tags) == "long_interval" \in tags \/ "immune_reconstitution" \in tags

\* Adherence risk: both rules may fire for one class.
modifiers_adherence(adherence_risk, st, key) ==
  LET tags == DMT_CLASSES[key].tags
      a1 == IF adherence_risk /\ LongActing(tags)
              THEN AddScore(st, key, 5, "adherence_long_interval") ELSE st
  IN IF adherence_risk /\ "high_freq" \in tags
       THEN AddScore(a1, key, -4, "adherence_high_freq") ELSE a1

\* Route preference: the new accumulators, and whether the iteration for this
\* class ends here (continue).
\* Mutant: under oral_only only the infusion classes are excluded.
modifiers_route_infusion(route_preference, st, key) ==
  LET tags == DMT_CLASSES[key].tags IN
  IF route_preference = "oral_only" THEN
    IF "oral" \in tags
      THEN [ st |-> AddScore(st, key, 4, "oral_only_is_oral"), continue |-> FALSE ]
    ELSE IF "infusion" \in tags
      THEN [ st |-> SetExcluded(st, key, "not_oral"), continue |-> TRUE ]
    ELSE [ st |-> st, continue |-> FALSE ]
  ELSE IF route_preference = "no_infusion" THEN
    IF "infusion" \in tags
      THEN [ st |-> AddScore(st, key, -6, "no_infusion_is_infusion"), continue |-> FALSE ]
      ELSE [ st |-> st, continue |-> FALSE ]
  ELSE IF route_preference = "prefer_infrequent" THEN
    LET p1 == IF LongActing(tags)
                THEN AddScore(st, key, 4, "infrequent_long_interval") ELSE st
        p2 == IF "high_freq" \in tags
                THEN AddScore(p1, key, -2, "infrequent_high_freq") ELSE p1
    IN [ st |-> p2, continue |-> FALSE ]
  ELSE [ st |-> st, continue |-> FALSE ]

modifiers_route(route_preference, st, key) ==
  LET tags == DMT_CLASSES[key].tags IN
  IF route_preference = "oral_only" THEN
    IF "oral" \in tags
      THEN [ st |-> AddScore(st, key, 4, "oral_only_is_oral"), continue |-> FALSE ]
      ELSE [ st |-> SetExcluded(st, key, "not_oral"), continue |-> TRUE ]
  ELSE IF route_preference = "no_infusion" THEN
    IF "infusion" \in tags
      THEN [ st |-> AddScore(st, key, -6, "no_infusion_is_infusion"), continue |-> FALSE ]
      ELSE [ st |-> st, continue |-> FALSE ]
  ELSE IF route_preference = "prefer_infrequent" THEN
    LET p1 == IF LongActing(tags)
                THEN AddScore(st, key, 4, "infrequent_long_interval") ELSE st
        p2 == IF "high_freq" \in tags
                THEN AddScore(p1, key, -2, "infrequent_high_freq") ELSE p1
    IN [ st |-> p2, continue |-> FALSE ]
  ELSE [ st |-> st, continue |-> FALSE ]

\* Mutant: the time_off_work rule is an elif of the limited_infusion_access rule.
modifiers_logistics_elif(logistic_limits, st, key) ==
  LET tags == DMT_CLASSES[key].tags
      l2 == IF "limited_infusion_access" \in logistic_limits /\ "infusion" \in tags
              THEN AddScore(st, key, -6, "limited_infusion_access")
            ELSE IF "time_off_work" \in logistic_limits /\ "infusion" \in tags
              THEN AddScore(st, key, -4, "time_off_work") ELSE st
  IN IF "unstable_insurance" \in logistic_limits
          /\ key \in {"anti_cd20", "natalizumab", "alemtuzumab"}
       THEN AddScore(l2, key, -3, "unstable_insurance") ELSE l2

\* Logistic limitations: three independent rules.
modifiers_logistics(logistic_limits, st, key) ==
  LET tags == DMT_CLASSES[key].tags
      l1 == IF "limited_infusion_access" \in logistic_limits /\ "infusion" \in tags
              THEN AddScore(st, key, -6, "limited_infusion_access") ELSE st
      l2 == IF "time_off_work" \in logistic_limits /\ "infusion" \in tags
              THEN AddScore(l1, key, -4, "time_off_work") ELSE l1
  IN IF "unstable_insurance" \in logistic_limits
          /\ key \in {"anti_cd20", "natalizumab", "alemtuzumab"}
       THEN AddScore(l2, key, -3, "unstable_insurance") ELSE l2

\* Vaccine priority.
modifiers_vaccine(vaccine_priority, st, key) ==
  LET tags == DMT_CLASSES[key].tags
      v1 == IF vaccine_priority /\ "blunts_vaccines" \in tags
              THEN AddScore(st, key, -6, "vaccine_blunted") ELSE st
  IN IF vaccine_priority /\ "vaccine_friendly" \in tags
       THEN AddScore(v1, key, 4, "vaccine_friendly") ELSE v1

\* Forced-discontinuation risk.
modifiers_forced_stop(forced_stop_risk, st, key) ==
  LET tags == DMT_CLASSES[key].tags
      f1 == IF forced_stop_risk /\ "rebound_risk" \in tags
              THEN AddScore(st, key, -8, "forced_stop_rebound") ELSE st
  IN IF forced_stop_risk /\ LongActing(tags)
       THEN AddScore(f1, key, 3, "forced_stop_smooth_exit") ELSE f1

\* Mutant: the oral_only exclusion does not end the iteration for the class.
score_modifiers_body_no_continue(adherence_risk, route_preference, logistic_limits, vaccine_priority, forced_stop_risk, st, key) ==
  LET r == modifiers_route(route_preference,
                           modifiers_adherence(adherence_risk, st, key), key)
  IN modifiers_forced_stop(forced_stop_risk,
       modifiers_vaccine(vaccine_priority,
         modifiers_logistics(logistic_limits, r.st, key), key), key)

score_modifiers_body(adherence_risk, route_preference, logistic_limits, vaccine_priority, forced_stop_risk, st, key) ==
  LET r == modifiers_route(route_preference,
                           modifiers_adherence(adherence_risk, st, key), key)
  IN IF r.continue THEN r.st
     ELSE modifiers_forced_stop(forced_stop_risk,
            modifiers_vaccine(vaccine_priority,
              modifiers_logistics(logistic_limits, r.st, key), key), key)

RECURSIVE score_modifiers_loop(_, _, _, _, _, _, _)
score_modifiers_loop(adherence_risk, route_preference, logistic_limits, vaccine_priority, forced_stop_risk, st, i) ==
  IF i > Len(ClassOrder) THEN st
  ELSE score_modifiers_loop(adherence_risk, route_preference, logistic_limits,
         vaccine_priority, forced_stop_risk,
         score_modifiers_body(adherence_risk, route_preference, logistic_limits,
                              vaccine_priority, forced_stop_risk, st, ClassOrder[i]),
         i + 1)

score_modifiers(adherence_risk, route_preference, logistic_limits, vaccine_priority, forced_stop_risk, st) ==
  score_modifiers_loop(adherence_risk, route_preference, logistic_limits,
                       vaccine_priority, forced_stop_risk, st, 1)

(***************************************************************************)
(* compute_rrms_initial_recommendations: the fresh accumulators, the       *)
(* details and the ranking.                                                *)
(***************************************************************************)
EmptyDict == [ k \in {} |-> "" ]

FreshAccumulators ==
  [ scores |-> [ k \in ClassIds |-> 0 ],
    notes |-> [ k \in ClassIds |-> << >> ],
    excluded |-> EmptyDict ]

\* f"{score:.1f}" of a multiple of 0.5: sign, whole part, first decimal.
FormatScore(v) ==
  LET a == IF v < 0 THEN -v ELSE v
  IN << IF v < 0 THEN "-" ELSE "", a \div 2, ".", 5 * (a % 2) >>

\* " ".join(ns) if ns else "": the notes with a blank between neighbours.
RECURSIVE JoinNotes(_)
JoinNotes(ns) ==
  IF ns = << >> THEN << >>
  ELSE IF Len(ns) = 1 THEN ns
  ELSE << Head(ns), " " >> \o JoinNotes(Tail(ns))

BuildDetails(sc, nt, excl) ==
  [ k \in ClassIds |->
      [ name |-> k,
        score |-> FormatScore(sc[k]),
        notes |-> JoinNotes(nt[k]),
        excluded_reason |-> IF k \in DOMAIN excl THEN excl[k] ELSE "" ] ]

\* [k for k in DMT_CLASSES.keys() if k not in excluded]
IsKeyOf(k, excl) == k \in DOMAIN excl

\* Mutant: the filter on excluded is forgotten.
non_excluded_unfiltered(excl) == ClassOrder

non_excluded(excl) == SelectSeq(ClassOrder, LAMBDA k : ~IsKeyOf(k, excl))

\* max(scores[k] for k in seq); Python raises ValueError on an empty sequence.
RECURSIVE MaxFrom(_, _, _, _)
MaxFrom(seq, sc, best, i) ==
  IF i > Len(seq) THEN best
  ELSE MaxFrom(seq, sc, IF sc[seq[i]] > best THEN sc[seq[i]] ELSE best, i + 1)

max_score(seq, sc) ==
  IF seq = << >> THEN [ raised |-> TRUE, value |-> 0 ]
  ELSE [ raised |-> FALSE, value |-> MaxFrom(seq, sc, sc[seq[1]], 2) ]

\* sorted(seq, key=lambda k: scores[k], reverse=True) is stable: an element is
\* placed after every element whose score is at least its own.
\* Mutant: ties are reversed, as by sorting ascending and reversing the result.
InsertByScore_reversing(done, k, sc) ==
  LET n == Cardinality({ j \in 1..Len(done) : sc[done[j]] > sc[k] })
  IN SubSeq(done, 1, n) \o << k >> \o SubSeq(done, n + 1, Len(done))

InsertByScore(done, k, sc) ==
  LET n == Cardinality({ j \in 1..Len(done) : sc[done[j]] >= sc[k] })
  IN SubSeq(done, 1, n) \o << k >> \o SubSeq(done, n + 1, Len(done))

RECURSIVE SortedFrom(_, _, _, _)
SortedFrom(seq, sc, done, i) ==
  IF i > Len(seq) THEN done
  ELSE SortedFrom(seq, sc, InsertByScore(done, seq[i], sc), i + 1)

sorted_by_score(seq, sc) == SortedFrom(seq, sc, << >>, 1)

\* The margin 1.0 below max_score that still counts as strongly recommended.
StrongMargin == 2

\* Mutant: the comparison with the threshold is strict.
IsStrong_strict(s, mx) == s > mx - StrongMargin

IsStrong(s, mx) == s >= mx - StrongMargin

\* Mutant: a score of exactly 0 still counts as a reasonable alternative.
IsAlternative_nonnegative(s) == s >= 0

IsAlternative(s) == s > 0

\* Mutant: a class must also have a positive score to be strongly recommended.
Classify_positive(seq, sc, mx, lists, i) ==
  [ strong |-> SelectSeq(seq, LAMBDA k : IsStrong(sc[k], mx) /\ IsAlternative(sc[k])),
    alt |-> SelectSeq(seq, LAMBDA k : ~IsStrong(sc[k], mx) /\ IsAlternative(sc[k])) ]

RECURSIVE Classify(_, _, _, _, _)
Classify(seq, sc, mx, lists, i) ==
  IF i > Len(seq) THEN lists
  ELSE LET key == seq[i]
           next == IF IsStrong(sc[key], mx)
                     THEN [ lists EXCEPT !.strong = Append(@, key) ]
                   ELSE IF IsAlternative(sc[key])
                     THEN [ lists EXCEPT !.alt = Append(@, key) ]
                   ELSE lists
       IN Classify(seq, sc, mx, next, i + 1)

NoLists == [ strong |-> << >>, alt |-> << >> ]

Ranking(sc, excl) ==
  LET ne == non_excluded(excl) IN
  IF ne = << >> THEN [ lists |-> NoLists, outcome |-> "returned" ]
  ELSE LET mx == max_score(ne, sc) IN
       IF mx.raised
         THEN [ lists |-> NoLists, outcome |-> "raised" ]
         ELSE [ lists |-> Classify(sorted_by_score(ne, sc), sc, mx.value, NoLists, 1),
                outcome |-> "returned" ]

(***************************************************************************)
(* The state machine: the form is submitted, the engine runs its four      *)
(* passes one after the other, ranks, and the page renders the result.     *)
(***************************************************************************)
ValidSelections == Selections(ComorbidityCodes, LogisticCodes)

\* What a caller that runs several evaluations has kept of the earlier ones:
\* profile -> the result returned for it.  The page keeps nothing.
NoHistory == [ p \in {} |-> << >> ]

st0 == [ scores |-> scores, notes |-> notes, excluded |-> excluded ]

Init ==
  /\ pc = "form"
  /\ profile = DefaultProfile
  /\ scores = FreshAccumulators.scores
  /\ notes = FreshAccumulators.notes
  /\ excluded = FreshAccumulators.excluded
  /\ strongly_recommended = << >>
  /\ reasonable_alternatives = << >>
  /\ details = EmptyDict
  /\ outcome = "none"
  /\ ui = "form"
  /\ history = NoHistory

\* Mutant: the accumulators are not allocated per call (module-level dicts).
Call_stale(p) ==
  /\ pc' = "called"
  /\ profile' = p
  /\ UNCHANGED <<scores, notes, excluded>>
  /\ UNCHANGED <<strongly_recommended, reasonable_alternatives, details, outcome, ui>>

Call(p) ==
  /\ pc' = "called"
  /\ profile' = p
  /\ scores' = FreshAccumulators.scores
  /\ notes' = FreshAccumulators.notes
  /\ excluded' = FreshAccumulators.excluded
  /\ UNCHANGED <<strongly_recommended, reasonable_alternatives, details, outcome, ui>>

Submit ==
  /\ pc = "form"
  /\ \E r \in RiskLevels, e \in EfficacyPreferences, c \in BOOLEAN,
        h \in PregnancyHorizons, sel \in ValidSelections, a \in BOOLEAN,
        rp \in RoutePreferences, v \in BOOLEAN, f \in BOOLEAN :
       Call([ risk_level |-> r, efficacy_preference |-> e,
              of_childbearing_potential |-> c, pregnancy_horizon |-> h,
              comorbidities |-> sel[1], adherence_risk |-> a,
              route_preference |-> rp, logistic_limits |-> sel[2],
              vaccine_priority |-> v, forced_stop_risk |-> f ])
  /\ UNCHANGED history

Pass(from, to, st) ==
  /\ pc = from
  /\ pc' = to
  /\ scores' = st.scores
  /\ notes' = st.notes
  /\ excluded' = st.excluded
  /\ UNCHANGED <<profile, strongly_recommended, reasonable_alternatives, details, outcome, ui,
                 history>>

ActivityPass ==
  Pass("called", "activity_done",
       score_activity_and_efficacy(profile.risk_level, profile.efficacy_preference, st0))

PregnancyPass ==
  Pass("activity_done", "pregnancy_done",
       score_pregnancy(profile.pregnancy_horizon, profile.of_childbearing_potential, st0))

ComorbidityPass ==
  Pass("pregnancy_done", "comorbidities_done",
       score_comorbidities(profile.comorbidities, st0))

ModifierPass ==
  Pass("comorbidities_done", "modifiers_done",
       score_modifiers(profile.adherence_risk, profile.route_preference,
                       profile.logistic_limits, profile.vaccine_priority,
                       profile.forced_stop_risk, st0))

Rank ==
  /\ pc = "modifiers_done"
  /\ LET r == Ranking(scores, excluded) IN
       /\ pc' = "returned"
       /\ details' = BuildDetails(scores, notes, excluded)
       /\ strongly_recommended' = r.lists.strong
       /\ reasonable_alternatives' = r.lists.alt
       /\ outcome' = r.outcome
  /\ UNCHANGED <<profile, scores, notes, excluded, ui, history>>

\* page_initial_rrms after the call: the error box when both lists are empty.
Render ==
  /\ pc = "returned"
  /\ outcome = "returned"
  /\ pc' = "rendered"
  /\ ui' = IF strongly_recommended = << >> /\ reasonable_alternatives = << >>
             THEN "all_excluded" ELSE "results"
  /\ UNCHANGED <<profile, scores, notes, excluded, strongly_recommended,
                 reasonable_alternatives, details, outcome, history>>

\* The script is run again: the locals of the last run are gone.
Rerun ==
  /\ pc = "rendered"
  /\ pc' = "form"
  /\ profile' = DefaultProfile
  /\ scores' = FreshAccumulators.scores
  /\ notes' = FreshAccumulators.notes
  /\ excluded' = FreshAccumulators.excluded
  /\ strongly_recommended' = << >>
  /\ reasonable_alternatives' = << >>
  /\ details' = EmptyDict
  /\ outcome' = "none"
  /\ ui' = "form"
  /\ UNCHANGED history

\* The engine called directly, by a caller that did not validate the profile:
\* any field may hold a value outside its vocabulary.
Unknown == "unknown_code"

UncheckedSelections == Selections(ComorbidityCodes \cup {Unknown}, LogisticCodes \cup {Unknown})

CallUnchecked ==
  /\ pc = "form"
  /\ \E r \in RiskLevels \cup {Unknown}, e \in EfficacyPreferences \cup {Unknown},
        c \in BOOLEAN, h \in PregnancyHorizons \cup {Unknown},
        sel \in UncheckedSelections, a \in BOOLEAN,
        rp \in RoutePreferences \cup {Unknown}, v \in BOOLEAN, f \in BOOLEAN :
       Call([ risk_level |-> r, efficacy_preference |-> e,
              of_childbearing_potential |-> c, pregnancy_horizon |-> h,
              comorbidities |-> sel[1], adherence_risk |-> a,
              route_preference |-> rp, logistic_limits |-> sel[2],
              vaccine_priority |-> v, forced_stop_risk |-> f ])
  /\ UNCHANGED history

Engine == ActivityPass \/ PregnancyPass \/ ComorbidityPass \/ ModifierPass \/ Rank

Next == Submit \/ Engine \/ Render \/ Rerun

Spec == Init /\ [][Next]_vars

NextUnchecked == CallUnchecked \/ Engine \/ Render \/ Rerun

SpecUnchecked == Init /\ [][NextUnchecked]_vars

(***************************************************************************)
(* Several evaluations by one caller in one process: the engine is called  *)
(* again as soon as it has returned, with nothing reset in between but     *)
(* what the call itself allocates.  The caller keeps each returned result. *)
(***************************************************************************)
\* Bound: how many different profiles the caller evaluates.
MaxEvaluated == 2

\* The profiles the caller draws from.
RepeatProfiles ==
  { [ DefaultProfile EXCEPT !.pregnancy_horizon = h, !.comorbidities = c,
                            !.route_preference = rp, !.adherence_risk = a ] :
      h \in {"none", "within_6_months"},
      c \in { {}, {"autoimmune", "malignancy"} },
      rp \in {"no_strong_pref", "oral_only"},
      a \in BOOLEAN }

\* What compute_rrms_initial_recommendations returned, and the accumulators
\* it was built from.
CurrentResult ==
  [ strongly_recommended |-> strongly_recommended,
    reasonable_alternatives |-> reasonable_alternatives,
    details |-> details,
    scores |-> scores, notes |-> notes, excluded |-> excluded ]

Remember(h, p, res) ==
  [ q \in (DOMAIN h) \cup {p} |-> IF q = p THEN res ELSE h[q] ]

CallFirst ==
  /\ pc = "form"
  /\ \E p \in RepeatProfiles : Call(p)
  /\ UNCHANGED history

CallAgain ==
  /\ pc = "returned"
  /\ outcome = "returned"
  /\ Cardinality((DOMAIN history) \cup {profile}) <= MaxEvaluated
  /\ history' = Remember(history, profile, CurrentResult)
  /\ \E p \in RepeatProfiles : Call(p)

NextRepeat == CallFirst \/ Engine \/ CallAgain

SpecRepeat == Init /\ [][NextRepeat]_vars

(***************************************************************************)
(* Vocabulary of the properties.                                           *)
(***************************************************************************)
Range(seq) == { seq[i] : i \in 1..Len(seq) }

CatalogIndex(k) == CHOOSE i \in 1..Len(ClassOrder) : ClassOrder[i] = k

ExcludedKeys == DOMAIN excluded

NonExcludedIds == ClassIds \ ExcludedKeys

\* The highest score among the non-excluded classes (when there is one).
TopScore == CHOOSE m \in { scores[k] : k \in NonExcludedIds } :
              \A k \in NonExcludedIds : scores[k] <= m

InEvaluation(p) == p \in {"activity_done", "pregnancy_done", "comorbidities_done",
                          "modifiers_done", "returned"}

Combined == strongly_recommended \o reasonable_alternatives

(***************************************************************************)
(* C1 - Exclusion monotonicity: every step of an evaluation keeps every    *)
(* key of excluded, and when the evaluation returns no key of excluded is  *)
(* in strongly_recommended or in reasonable_alternatives.                  *)
(***************************************************************************)
C1_ExclusionMonotonicity ==
  [][ /\ InEvaluation(pc') => ExcludedKeys \subseteq DOMAIN excluded'
      /\ pc' = "returned" =>
           \A k \in DOMAIN excluded' :
             /\ k \notin Range(strongly_recommended')
             /\ k \notin Range(reasonable_alternatives') ]_vars

\* Classes excluded by the comorbidity pass and by the modifier pass, with
\* both lists filled.
C1_Witness ==
  /\ pc = "returned"
  /\ \E b, c \in ExcludedKeys :
       /\ excluded[b] = "hepatic"
       /\ excluded[c] = "not_oral"
  /\ strongly_recommended # << >>
  /\ reasonable_alternatives # << >>

(***************************************************************************)
(* C2 - Tier threshold: when at least one class is not excluded, a         *)
(* non-excluded class is in strongly_recommended exactly when its score    *)
(* is at least the top non-excluded score minus 1.0 (2 in scaled units).   *)
(***************************************************************************)
C2_TierThreshold ==
  (pc = "returned" /\ NonExcludedIds # {}) =>
    /\ \A k \in NonExcludedIds :
         k \in Range(strongly_recommended) <=> scores[k] >= TopScore - 2
    /\ \A k \in Range(strongly_recommended) : scores[k] >= TopScore - 2

\* A class exactly on the threshold is listed and one below it is not.
C2_Witness ==
  /\ pc = "returned"
  /\ NonExcludedIds # {}
  /\ \E k \in Range(strongly_recommended) : scores[k] = TopScore - 2
  /\ \E k \in NonExcludedIds : scores[k] = TopScore - 3
  /\ ExcludedKeys # {}

(***************************************************************************)
(* C3 - Ranking consistency: along strongly_recommended followed by        *)
(* reasonable_alternatives the scores never increase, and inside one list  *)
(* classes of equal score stand in catalog declaration order.              *)
(***************************************************************************)
TiesInCatalogOrder(list) ==
  \A i, j \in 1..Len(list) :
    (i < j /\ scores[list[i]] = scores[list[j]]) =>
      CatalogIndex(list[i]) < CatalogIndex(list[j])

C3_RankingConsistency ==
  pc = "returned" =>
    /\ \A i, j \in 1..Len(Combined) :
         i < j => scores[Combined[i]] >= scores[Combined[j]]
    /\ TiesInCatalogOrder(strongly_recommended)
    /\ TiesInCatalogOrder(reasonable_alternatives)

\* Both lists hold a tie, and the order by score differs from catalog order.
C3_Witness ==
  /\ pc = "returned"
  /\ \E i, j \in 1..Len(strongly_recommended) :
       i < j /\ scores[strongly_recommended[i]] = scores[strongly_recommended[j]]
  /\ \E i, j \in 1..Len(reasonable_alternatives) :
       i < j /\ scores[reasonable_alternatives[i]] = scores[reasonable_alternatives[j]]
  /\ \E i, j \in 1..Len(Combined) :
       i < j /\ CatalogIndex(Combined[i]) > CatalogIndex(Combined[j])

(***************************************************************************)
(* C4 - Pregnancy hard rule: with of_childbearing_potential and            *)
(* pregnancy_horizon = within_6_months, right after the pregnancy pass the *)
(* keys of excluded are exactly the classes whose pregnancy_strategy is    *)
(* not compatible, which is every class except platform_injectables, and   *)
(* all of them are still keys of excluded in every later state of the      *)
(* evaluation.                                                             *)
(***************************************************************************)
NotPregnancyCompatible ==
  { k \in ClassIds : DMT_CLASSES[k].pregnancy_strategy # "compatible" }

PregnancySoon(p) ==
  p.of_childbearing_potential /\ p.pregnancy_horizon = "within_6_months"

C4_PregnancyHardRule ==
  PregnancySoon(profile) =>
    /\ pc = "pregnancy_done" =>
         /\ ExcludedKeys = NotPregnancyCompatible
         /\ ExcludedKeys = ClassIds \ {"platform_injectables"}
    /\ pc \in {"comorbidities_done", "modifiers_done", "returned", "rendered"} =>
         /\ NotPregnancyCompatible \subseteq ExcludedKeys
         /\ ClassIds \ {"platform_injectables"} \subseteq ExcludedKeys

\* The rule has acted next to other constraints and platform_injectables is
\* the one class left.
C4_Witness ==
  /\ pc = "returned"
  /\ PregnancySoon(profile)
  /\ profile.comorbidities # {}
  /\ profile.adherence_risk
  /\ strongly_recommended = << "platform_injectables" >>

(***************************************************************************)
(* C5 - Oral-only hard rule: with route_preference = oral_only the         *)
(* modifier pass makes every class without tag oral a key of excluded and  *)
(* leaves an oral class excluded exactly when an earlier pass excluded it; *)
(* the non-oral classes stay excluded until the result is rendered; with   *)
(* no other constraint set, excluded is exactly natalizumab, alemtuzumab,  *)
(* platform_injectables and anti_cd20 and the pass adds 2.0 to each oral   *)
(* class.                                                                  *)
(***************************************************************************)
OralIds == { k \in ClassIds : "oral" \in DMT_CLASSES[k].tags }

NoPregnancyPlanning(p) ==
  ~p.of_childbearing_potential \/ p.pregnancy_horizon = "none"

OnlyRouteConstraint(p) ==
  /\ p.comorbidities = {}
  /\ NoPregnancyPlanning(p)
  /\ p.logistic_limits = {}
  /\ ~p.adherence_risk /\ ~p.vaccine_priority /\ ~p.forced_stop_risk

C5_OralOnlyHardRule ==
  [][ profile'.route_preference = "oral_only" =>
        /\ OralIds = {"fumarates", "teriflunomide", "s1p_modulators", "cladribine"}
        /\ (pc = "comorbidities_done" /\ pc' = "modifiers_done") =>
             /\ ClassIds \ OralIds \subseteq DOMAIN excluded'
             /\ \A k \in OralIds : k \in DOMAIN excluded' <=> k \in ExcludedKeys
             /\ OnlyRouteConstraint(profile) =>
                  /\ DOMAIN excluded' =
                       {"natalizumab", "alemtuzumab", "platform_injectables", "anti_cd20"}
                  /\ \A k \in OralIds : scores'[k] = scores[k] + 4
        /\ pc' \in {"modifiers_done", "returned", "rendered"} =>
             ClassIds \ OralIds \subseteq DOMAIN excluded' ]_vars

\* Oral-only next to a comorbidity exclusion of an oral class, with oral
\* classes surviving.
C5_Witness ==
  /\ pc = "returned"
  /\ profile.route_preference = "oral_only"
  /\ "s1p_modulators" \in ExcludedKeys
  /\ "cladribine" \in Range(strongly_recommended)
  /\ excluded["anti_cd20"] = "not_oral"

(***************************************************************************)
(* C6 - Scenario A score gap.  Scenario A: risk_level = high, no           *)
(* comorbidities, no pregnancy planning, no route preference, no logistic  *)
(* limits, all boolean modifiers false.                                    *)
(***************************************************************************)
ScenarioA(p) ==
  /\ p.risk_level = "high"
  /\ p.comorbidities = {}
  /\ NoPregnancyPlanning(p)
  /\ p.route_preference = "no_strong_pref"
  /\ p.logistic_limits = {}
  /\ ~p.adherence_risk /\ ~p.vaccine_priority /\ ~p.forced_stop_risk

HighTierIds == {"anti_cd20", "natalizumab", "alemtuzumab", "cladribine", "s1p_modulators"}

LowTierIds == {"fumarates", "teriflunomide", "platform_injectables"}

\* C6 as stated: in Scenario A each high/moderate_high class ends at least
\* 3.0 (6 in scaled units) above each moderate/platform class.
C6_GapAtLeastThree ==
  (pc = "returned" /\ ScenarioA(profile)) =>
    \A h \in HighTierIds, l \in LowTierIds : scores[h] - scores[l] >= 6

\* C6 as amended: in Scenario A each high/moderate_high class ends at least
\* 2.0 (4 in scaled units) above each moderate/platform class (3.0 against
\* 1.0).
C6_GapAtLeastTwo ==
  (pc = "returned" /\ ScenarioA(profile)) =>
    /\ \A h \in HighTierIds, l \in LowTierIds : scores[h] - scores[l] >= 4
    /\ HighTierIds = { k \in ClassIds : DMT_CLASSES[k].efficacy_tier \in HighTiers }
    /\ LowTierIds = ClassIds \ HighTierIds

C6_Witness ==
  /\ pc = "returned"
  /\ ScenarioA(profile)
  /\ profile.efficacy_preference = "max"
  /\ scores["natalizumab"] = 6
  /\ scores["teriflunomide"] = 2

(***************************************************************************)
(* C7 - Scenario A strong tier: in Scenario A strongly_recommended holds   *)
(* exactly the five high/moderate_high classes, whatever the value of      *)
(* efficacy_preference.                                                    *)
(***************************************************************************)
C7_ScenarioAStrongTier ==
  (pc = "returned" /\ ScenarioA(profile)) =>
    /\ Range(strongly_recommended) = HighTierIds
    /\ Len(strongly_recommended) = 5

C7_Witness ==
  /\ pc = "returned"
  /\ ScenarioA(profile)
  /\ profile.efficacy_preference = "safety"
  /\ Len(strongly_recommended) = 5
  /\ Range(reasonable_alternatives) = LowTierIds

(***************************************************************************)
(* C8 - Additivity: when the evaluation returns, the score of every class  *)
(* that is not a key of excluded is the sum of the deltas of all rules of  *)
(* the delta table whose condition holds for the profile and the class,    *)
(* each counted once.                                                      *)
(***************************************************************************)
Delta(cond, d) == IF cond THEN d ELSE 0

\* The delta table: one entry per rule, the rule's condition and its delta.
DeltaTable(p, k) ==
  LET tier == DMT_CLASSES[k].efficacy_tier
      strategy == DMT_CLASSES[k].pregnancy_strategy
      tags == DMT_CLASSES[k].tags
      hi == tier \in {"high", "moderate_high"}
      low == p.risk_level = "low_mod"
      planning == p.of_childbearing_potential
      soon == planning /\ p.pregnancy_horizon = "within_6_months"
      later == planning /\ p.pregnancy_horizon = "six_to_24_months"
      long == "long_interval" \in tags \/ "immune_reconstitution" \in tags
  IN <<
    \* activity and efficacy preference
    Delta(p.risk_level = "high" /\ hi, 6),
    Delta(p.risk_level = "high" /\ ~hi, 2),
    Delta(low /\ p.efficacy_preference = "max" /\ hi, 6),
    Delta(low /\ p.efficacy_preference = "max" /\ ~hi, 3),
    Delta(low /\ p.efficacy_preference = "balanced" /\ hi, 5),
    Delta(low /\ p.efficacy_preference = "balanced" /\ ~hi, 4),
    Delta(low /\ p.efficacy_preference = "safety" /\ hi, 2),
    Delta(low /\ p.efficacy_preference = "safety" /\ ~hi, 6),
    \* pregnancy
    Delta(soon /\ strategy = "compatible", 8),
    Delta(later /\ strategy = "compatible", 6),
    Delta(later /\ strategy = "short_course_before_preg", 4),
    Delta(later /\ strategy = "caution", 2),
    Delta(later /\ strategy \in {"needs_long_washout", "avoid"}, -6),
    \* comorbidities
    Delta("renal" \in p.comorbidities /\ k = "fumarates", -4),
    Delta("malignancy" \in p.comorbidities
            /\ k \in {"anti_cd20", "alemtuzumab", "cladribine", "teriflunomide"}, -4),
    Delta("infection_risk" \in p.comorbidities
            /\ k \in {"anti_cd20", "alemtuzumab", "cladribine", "s1p_modulators"}, -6),
    Delta("gi_dominant" \in p.comorbidities /\ k \in {"fumarates", "teriflunomide"}, -6),
    Delta("psychiatric" \in p.comorbidities /\ k = "platform_injectables", -4),
    \* modifiers
    Delta(p.adherence_risk /\ long, 5),
    Delta(p.adherence_risk /\ "high_freq" \in tags, -4),
    Delta(p.route_preference = "oral_only" /\ "oral" \in tags, 4),
    Delta(p.route_preference = "no_infusion" /\ "infusion" \in tags, -6),
    Delta(p.route_preference = "prefer_infrequent" /\ long, 4),
    Delta(p.route_preference = "prefer_infrequent" /\ "high_freq" \in tags, -2),
    Delta("limited_infusion_access" \in p.logistic_limits /\ "infusion" \in tags, -6),
    Delta("time_off_work" \in p.logistic_limits /\ "infusion" \in tags, -4),
    Delta("unstable_insurance" \in p.logistic_limits
            /\ k \in {"anti_cd20", "natalizumab", "alemtuzumab"}, -3),
    Delta(p.vaccine_priority /\ "blunts_vaccines" \in tags, -6),
    Delta(p.vaccine_priority /\ "vaccine_friendly" \in tags, 4),
    Delta(p.forced_stop_risk /\ "rebound_risk" \in tags, -8),
    Delta(p.forced_stop_risk /\ long, 3)
  >>

RECURSIVE SumSeq(_)
SumSeq(ds) == IF ds = << >> THEN 0 ELSE Head(ds) + SumSeq(Tail(ds))

C8_Additivity ==
  pc = "returned" =>
    \A k \in NonExcludedIds : scores[k] = SumSeq(DeltaTable(profile, k))

\* A class that received a delta from each of the four passes, next to a
\* class that a comorbidity rule excluded.
C8_Witness ==
  /\ pc = "returned"
  /\ profile.of_childbearing_potential
  /\ profile.pregnancy_horizon = "six_to_24_months"
  /\ profile.comorbidities = {"malignancy", "cardiac"}
  /\ profile.vaccine_priority
  /\ "anti_cd20" \in NonExcludedIds
  /\ Len(notes["anti_cd20"]) >= 4
  /\ "s1p_modulators" \in ExcludedKeys

(***************************************************************************)
(* C9 - Invalid input fails fast: an evaluation of a profile that holds a  *)
(* value outside its vocabulary never returns a normal result.             *)
(***************************************************************************)
ValidProfile(p) ==
  /\ p.risk_level \in RiskLevels
  /\ p.efficacy_preference \in EfficacyPreferences
  /\ p.pregnancy_horizon \in PregnancyHorizons
  /\ p.route_preference \in RoutePreferences
  /\ p.comorbidities \subseteq ComorbidityCodes
  /\ p.logistic_limits \subseteq LogisticCodes

C9_InvalidInputFailsFast ==
  (pc = "returned" /\ ~ValidProfile(profile)) => outcome = "raised"

(***************************************************************************)
(* C10 - Degenerate result: an evaluation of a valid profile returns       *)
(* without an error; both lists are empty exactly when every class is      *)
(* excluded, and the page shows the all-excluded message exactly then;     *)
(* when a class is left, every top-scoring non-excluded class is in        *)
(* strongly_recommended, whatever the sign of its score.                   *)
(***************************************************************************)
BothListsEmpty == strongly_recommended = << >> /\ reasonable_alternatives = << >>

C10_DegenerateResult ==
  /\ pc \in {"returned", "rendered"} =>
       /\ ValidProfile(profile)
       /\ outcome = "returned"
       /\ BothListsEmpty <=> ExcludedKeys = ClassIds
       /\ \A k \in NonExcludedIds :
            scores[k] = TopScore => k \in Range(strongly_recommended)
  /\ pc = "rendered" => (ui = "all_excluded" <=> ExcludedKeys = ClassIds)
  /\ pc = "returned" => ENABLED Render

\* The one class left has score 0 and is strongly recommended.
C10_Witness ==
  /\ pc = "rendered"
  /\ NonExcludedIds # {}
  /\ TopScore <= 0
  /\ strongly_recommended # << >>
  /\ ui = "results"

(***************************************************************************)
(* C11 - Three-way tiering: when at least one class is not excluded, each  *)
(* non-excluded class is in strongly_recommended exactly when its score is *)
(* at least the top score minus 1.0, in reasonable_alternatives exactly    *)
(* when its score is below that and above 0, and in neither list exactly   *)
(* when its score is below that and at most 0; the lists are disjoint and  *)
(* without duplicates, hold only non-excluded classes, and every catalog   *)
(* class has an entry in details.                                          *)
(***************************************************************************)
NoDuplicates(list) ==
  \A i, j \in 1..Len(list) : list[i] = list[j] => i = j

C11_ThreeWayTiering ==
  pc = "returned" =>
    /\ DOMAIN details = ClassIds
    /\ NoDuplicates(Combined)
    /\ Range(Combined) \subseteq NonExcludedIds
    /\ \A k \in NonExcludedIds :
         LET strong == scores[k] >= TopScore - 2
             positive == scores[k] > 0
         IN /\ k \in Range(strongly_recommended) <=> strong
            /\ k \in Range(reasonable_alternatives) <=> (~strong /\ positive)
            /\ k \notin Range(Combined) <=> (~strong /\ ~positive)

\* All three cases at once, next to an excluded class: one omitted class has
\* score 0 and one a negative score.
C11_Witness ==
  /\ pc = "returned"
  /\ strongly_recommended # << >>
  /\ reasonable_alternatives # << >>
  /\ ExcludedKeys # {}
  /\ \E k \in NonExcludedIds \ Range(Combined) : scores[k] = 0
  /\ \E k \in NonExcludedIds \ Range(Combined) : scores[k] < 0

(***************************************************************************)
(* C12 - Determinism and purity: whenever an evaluation returns for a      *)
(* profile that the same caller has evaluated before, with or without      *)
(* other evaluations in between, strongly_recommended,                     *)
(* reasonable_alternatives, details, scores, notes and excluded are        *)
(* identical to what the earlier evaluation returned; nothing an           *)
(* evaluation leaves behind is read by a later one.  (The catalog is a     *)
(* constant of the model: no statement of the engine assigns to it.)       *)
(***************************************************************************)
C12_Determinism ==
  (pc = "returned" /\ profile \in DOMAIN history) =>
    CurrentResult = history[profile]

\* A profile evaluated again after another profile was evaluated too, with
\* exclusions and a non-empty ranking in the repeated result.
C12_Witness ==
  /\ pc = "returned"
  /\ profile \in DOMAIN history
  /\ Cardinality(DOMAIN history) = 2
  /\ \E q \in DOMAIN history : history[q] # history[profile]
  /\ ExcludedKeys # {}
  /\ strongly_recommended # << >>

(***************************************************************************)
(* C13 - Comorbidity exclusions: in every step of the comorbidity pass the *)
(* set of classes whose entry in excluded the pass writes is exactly       *)
(* {s1p_modulators if cardiac} + {teriflunomide if hepatic} +              *)
(* {alemtuzumab if autoimmune}, each with its own rule's reason, and no    *)
(* entry is removed; renal, malignancy, infection_risk, gi_dominant and    *)
(* psychiatric contribute nothing to that set.  When an evaluation with    *)
(* comorbidities = {cardiac}, no pregnancy planning and a route preference *)
(* other than oral_only returns, s1p_modulators is the only excluded class.*)
(***************************************************************************)
ComorbidityExclusions(comorbidities) ==
  { k \in ClassIds : \/ "cardiac" \in comorbidities /\ k = "s1p_modulators"
                     \/ "hepatic" \in comorbidities /\ k = "teriflunomide"
                     \/ "autoimmune" \in comorbidities /\ k = "alemtuzumab" }

ComorbidityReason(k) ==
  CASE k = "s1p_modulators" -> "cardiac"
    [] k = "teriflunomide" -> "hepatic"
    [] k = "alemtuzumab" -> "autoimmune"
    [] OTHER -> "none"

\* The keys of excluded that the step writes: new keys and changed reasons.
WrittenExclusions ==
  { k \in DOMAIN excluded' : k \notin DOMAIN excluded \/ excluded'[k] # excluded[k] }

ComorbidityStep == pc = "pregnancy_done" /\ pc' = "comorbidities_done"

C13_Step ==
  /\ ComorbidityStep =>
       /\ DOMAIN excluded \subseteq DOMAIN excluded'
       /\ WrittenExclusions = ComorbidityExclusions(profile.comorbidities)
       /\ \A k \in WrittenExclusions : excluded'[k] = ComorbidityReason(k)
  /\ ( /\ pc' = "returned"
       /\ profile.comorbidities = {"cardiac"}
       /\ NoPregnancyPlanning(profile)
       /\ profile.route_preference # "oral_only" ) =>
       DOMAIN excluded' = {"s1p_modulators"}

C13_ComorbidityExclusions == [][C13_Step]_vars

\* After the comorbidity pass: two excluding comorbidities, one of them on a
\* class that the pregnancy pass had excluded already, next to classes the
\* pregnancy pass excluded and the comorbidity pass left as they were.
C13_Witness ==
  /\ pc = "comorbidities_done"
  /\ profile.comorbidities = {"hepatic", "autoimmune"}
  /\ PregnancySoon(profile)
  /\ excluded["teriflunomide"] = "hepatic"
  /\ excluded["alemtuzumab"] = "autoimmune"
  /\ \E k \in DOMAIN excluded : excluded[k] = "pregnancy_within_6_months"

(***************************************************************************)
(* C14 - Cross-pass short-circuit, as claimed: in every step of the        *)
(* comorbidity pass and of the modifier pass, a class that was a key of    *)
(* excluded before the step keeps its score and its notes.                 *)
(***************************************************************************)
ModifierStep == pc = "comorbidities_done" /\ pc' = "modifiers_done"

C14_Untouched ==
  (ComorbidityStep \/ ModifierStep) =>
    \A k \in DOMAIN excluded : scores'[k] = scores[k] /\ notes'[k] = notes[k]

C14_CrossPassShortCircuit == [][C14_Untouched]_vars

(***************************************************************************)
(* C14, amended - Every pass visits every class of the catalog: a class    *)
(* that was a key of excluded before the comorbidity pass or before the    *)
(* modifier pass stays excluded and receives from that pass the deltas and *)
(* notes of all its rules that apply to the class, one note per delta      *)
(* appended to the notes it had; only an exclusion made inside the pass    *)
(* with continue (cardiac, hepatic, oral_only for a class that is not      *)
(* oral) ends the rules of that pass for the class.                        *)
(***************************************************************************)
\* Entries from..to of the delta table, in rule order: 14..18 are the rules
\* of the comorbidity pass, 19..31 those of the modifier pass, 19..20 of
\* which are the adherence rules.
Entries(ds, from, to) == [ i \in 1..(to - from + 1) |-> ds[from + i - 1] ]

ComorbidityDeltas(p, k) ==
  IF \/ "cardiac" \in p.comorbidities /\ k = "s1p_modulators"
     \/ "hepatic" \in p.comorbidities /\ k = "teriflunomide"
    THEN << >>
    ELSE Entries(DeltaTable(p, k), 14, 18)

ModifierDeltas(p, k) ==
  IF p.route_preference = "oral_only" /\ k \notin OralIds
    THEN Entries(DeltaTable(p, k), 19, 20)
    ELSE Entries(DeltaTable(p, k), 19, 31)

Applied(ds) == Cardinality({ i \in DOMAIN ds : ds[i] # 0 })

\* What a step does to class k when the deltas ds apply to it.
ReceivesDeltas(k, ds) ==
  /\ k \in DOMAIN excluded'
  /\ scores'[k] = scores[k] + SumSeq(ds)
  /\ Len(notes'[k]) = Len(notes[k]) + Applied(ds)
  /\ SubSeq(notes'[k], 1, Len(notes[k])) = notes[k]

C14_StillScored ==
  /\ ComorbidityStep =>
       \A k \in DOMAIN excluded : ReceivesDeltas(k, ComorbidityDeltas(profile, k))
  /\ ModifierStep =>
       \A k \in DOMAIN excluded : ReceivesDeltas(k, ModifierDeltas(profile, k))

C14_ExcludedStillScored == [][C14_StillScored]_vars

\* anti_cd20, excluded by the pregnancy pass and by no later rule, carries
\* the malignancy penalty of the comorbidity pass and the vaccine penalty
\* of the modifier pass.
C14_Witness ==
  /\ pc = "returned"
  /\ "anti_cd20" \in DOMAIN excluded
  /\ excluded["anti_cd20"] = "pregnancy_within_6_months"
  /\ "malignancy" \in Range(notes["anti_cd20"])
  /\ "vaccine_blunted" \in Range(notes["anti_cd20"])
  /\ scores["anti_cd20"] = SumSeq(Entries(DeltaTable(profile, "anti_cd20"), 1, 8)) - 4 - 6

(***************************************************************************)
(* C15 - Same-pass short-circuit in the comorbidity pass: in every step of *)
(* the comorbidity pass, a class that a comorbidity rule excludes (cardiac *)
(* for s1p_modulators, hepatic for teriflunomide, autoimmune for           *)
(* alemtuzumab) keeps the score and the notes it had before the pass: no   *)
(* rule that precedes the exclusion applies to it and no later rule is     *)
(* evaluated for it.                                                       *)
(***************************************************************************)
C15_Untouched ==
  ComorbidityStep =>
    \A k \in ComorbidityExclusions(profile.comorbidities) :
      scores'[k] = scores[k] /\ notes'[k] = notes[k]

C15_SamePassShortCircuit == [][C15_Untouched]_vars

(***************************************************************************)
(* C16 - Oral-only short-circuit in the modifier pass: with                *)
(* route_preference = oral_only, every step of the modifier pass makes     *)
(* each class without tag oral a key of excluded with the not-oral reason, *)
(* and changes its score and notes by the adherence-risk rules only: the   *)
(* logistic, vaccine and forced-stop rules leave them unchanged.           *)
(***************************************************************************)
AdherenceNotes(p, k) ==
  LET tags == DMT_CLASSES[k].tags
  IN (IF p.adherence_risk /\ LongActing(tags)
        THEN << "adherence_long_interval" >> ELSE << >>)
     \o (IF p.adherence_risk /\ "high_freq" \in tags
           THEN << "adherence_high_freq" >> ELSE << >>)

AdherenceDelta(p, k) ==
  LET tags == DMT_CLASSES[k].tags
  IN Delta(p.adherence_risk /\ LongActing(tags), 5)
     + Delta(p.adherence_risk /\ "high_freq" \in tags, -4)

C16_Step ==
  (ModifierStep /\ profile.route_preference = "oral_only") =>
    \A k \in ClassIds \ OralIds :
      /\ k \in DOMAIN excluded'
      /\ excluded'[k] = "not_oral"
      /\ scores'[k] = scores[k] + AdherenceDelta(profile, k)
      /\ notes'[k] = notes[k] \o AdherenceNotes(profile, k)

C16_OralOnlyShortCircuit == [][C16_Step]_vars

\* After the modifier pass under oral_only, with adherence risk, a logistic
\* limit on infusions and vaccine priority set: anti_cd20, an infusion class
\* that blunts vaccines, carries the adherence note as its last note, and
\* platform_injectables the high-frequency one.
C16_Witness ==
  /\ pc = "modifiers_done"
  /\ profile.route_preference = "oral_only"
  /\ profile.adherence_risk
  /\ profile.vaccine_priority
  /\ "limited_infusion_access" \in profile.logistic_limits
  /\ "infusion" \in DMT_CLASSES["anti_cd20"].tags
  /\ "blunts_vaccines" \in DMT_CLASSES["anti_cd20"].tags
  /\ "anti_cd20" \in DOMAIN excluded
  /\ excluded["anti_cd20"] = "not_oral"
  /\ notes["anti_cd20"] # << >>
  /\ notes["anti_cd20"][Len(notes["anti_cd20"])] = "adherence_long_interval"
  /\ "adherence_high_freq" \in Range(notes["platform_injectables"])

(***************************************************************************)
(* C17 - Single exclusion reason, last writer wins: when the evaluation    *)
(* returns, details holds for every class one reason string, the empty     *)
(* string exactly for the classes that are not excluded, and for an        *)
(* excluded class the reason of the last rule in pass order that excludes  *)
(* it: not-oral under oral_only for a class that is not oral, otherwise    *)
(* the reason of its comorbidity rule, otherwise the pregnancy reason.     *)
(***************************************************************************)
ExpectedReason(p, k) ==
  IF p.route_preference = "oral_only" /\ k \notin OralIds THEN "not_oral"
  ELSE IF k \in ComorbidityExclusions(p.comorbidities) THEN ComorbidityReason(k)
  ELSE IF PregnancySoon(p) /\ k \in NotPregnancyCompatible
    THEN "pregnancy_within_6_months"
  ELSE ""

C17_LastWriterWins ==
  pc = "returned" =>
    /\ DOMAIN details = ClassIds
    /\ \A k \in ClassIds :
         /\ details[k].excluded_reason = ExpectedReason(profile, k)
         /\ k \in ExcludedKeys <=> details[k].excluded_reason # ""
         /\ k \in ExcludedKeys => details[k].excluded_reason = excluded[k]

\* Pregnancy within six months, autoimmune and cardiac comorbidity and
\* oral_only together: alemtuzumab, excluded by all three passes, reports
\* not-oral; s1p_modulators, oral, reports cardiac over pregnancy; fumarates
\* reports the pregnancy reason.
C17_Witness ==
  /\ pc = "returned"
  /\ PregnancySoon(profile)
  /\ profile.comorbidities = {"autoimmune", "cardiac"}
  /\ profile.route_preference = "oral_only"
  /\ details["alemtuzumab"].excluded_reason = "not_oral"
  /\ details["s1p_modulators"].excluded_reason = "cardiac"
  /\ details["fumarates"].excluded_reason = "pregnancy_within_6_months"

=============================================================================
